---- MODULE Spec2Model ----
(***************************************************************************)
(* doc-slurp: the incremental scrape engine (scrapeOrg) and its callers.   *)
(*                                                                         *)
(* One behaviour is a sequence of scrapes of one GitHub organisation by    *)
(* one caller (the CLI runScrape / scripts/scrape, or the browser          *)
(* OrgScraper form).  Every await of scrapeOrg is a point where the        *)
(* outstanding client request either resolves or rejects; the code between *)
(* two awaits is one atomic step.                                          *)
(***************************************************************************)
EXTENDS Integers, Sequences, FiniteSets, TLC

\* ------------------------------------------------------------------ bounds

\* Scrapes a behaviour of SpecRerun performs one after another.
MaxRuns == 2
\* Largest value the millisecond clock takes.
MaxClock == 3
\* Rate-limit responses GitHub gives to one request before it answers otherwise.
MaxRateLimits == 5

\* ---------------------------------------------------------- the universe

Org == "org"
\* Short names of the repositories the organisation can hold.
RepoNames == {"a", "b"}
\* Markdown paths the tree of each repository can hold (the shape of the test
\* fixture: two files in the first repository, one in the second).
RepoPaths == [a |-> {"README.md", "docs/guide.md"}, b |-> {"README.md"}]
\* A blob SHA no tree of the organisation reports (a fingerprint of old content).
OldSha == "old"
\* The clock when the behaviour starts.
StartTime == 2
\* The timestamp carried by entries of a store persisted before the behaviour.
PrevTime == StartTime - 1

\* Sequences without repetition over S
RECURSIVE SeqsOver(_)
SeqsOver(S) ==
    IF S = {} THEN {<<>>}
    ELSE {<<>>} \cup UNION {{<<x>> \o s : s \in SeqsOver(S \ {x})} : x \in S}

Range(s) == {s[k] : k \in 1..Len(s)}

\* ------------------------------------------------------------- variables

VARIABLES
    remote,       \* the organisation on GitHub: [repos: listing, trees: name -> md entries]
    config,       \* [caller, repoFilter]
    abortRef,     \* OrgScraper: abortRef.current
    request,      \* the client's request in hand: [url, status, retryCount, limits]
    served,       \* what GitHub serves to the client function looked at
    clientResult, \* what that client function returned
    stateFile,    \* the persisted store (state file / localStorage entry)
    docs,         \* the CLI's docs directory: destination path -> file content
    running,      \* App: the running flag the form is disabled by
    uiLog,        \* history: the onStart/onDone calls of the last submission
    now,          \* the clock read by Date.now() / new Date()
    runsLeft,     \* scrapes still to start
    pc,           \* position of the caller / of scrapeOrg
    prevState,    \* scrapeOrg parameter
    newState,     \* scrapeOrg local
    results,      \* scrapeOrg local
    repos,        \* scrapeOrg local: the retained repositories
    totalFetched, totalSkipped, totalFiles,
    mdFiles,      \* scrapeOrg local: tree entries of the current repository
    ri,           \* index of the current repository in repos
    fi,           \* index of the current file in mdFiles
    events,       \* what the progress sink has received in this run
    requested,    \* history: content requests of this run, in order
    treeOk,       \* history: full names whose tree listing succeeded in this run
    treeFailed,   \* history: full names whose tree listing failed in this run
    fetchFailed,  \* history: <<full name, path>> whose content fetch failed in this run
    runs          \* history: one record per finished scrapeOrg call

clientVars == <<request, served, clientResult>>
uiVars == <<running, uiLog>>
envVars == <<remote, config, abortRef, clientVars, docs, uiVars>>
engineVars == <<prevState, newState, results, repos, totalFetched, totalSkipped,
                totalFiles, mdFiles, ri, fi>>
histVars == <<events, requested, treeOk, treeFailed, fetchFailed>>
vars == <<remote, config, abortRef, clientVars, uiVars, stateFile, docs, now, runsLeft, pc, prevState, newState, results,
          repos, totalFetched, totalSkipped, totalFiles, mdFiles, ri, fi, events,
          requested, treeOk, treeFailed, fetchFailed, runs>>

\* ------------------------------------------------------- the remote side

\* full_name of a repository: owner/short_name
FullName(name) == Org \o "/" \o name

\* The blob SHA GitHub reports for a path of a repository
RemoteSha(name, path) == "sha:" \o name \o "/" \o path

\* The decoded content GitHub serves for a path of a repository
RemoteContent(name, path) == "# Content of " \o name \o "/" \o path

\* A repository descriptor as listOrgRepos builds it
RepoDescriptor(name) ==
    [name |-> name, full_name |-> FullName(name), default_branch |-> "main"]

\* A tree entry as getRepoTree returns it
TreeEntry(name, path) == [path |-> path, sha |-> RemoteSha(name, path), type |-> "blob"]

\* The organisations the model explores: any listing of distinct repositories,
\* each with any tree of distinct Markdown paths.
Listings == {<<>>, <<"a">>, <<"a", "b">>}

TreesOf(rs) ==
    {t \in [Range(rs) -> UNION {SeqsOver(RepoPaths[n]) : n \in Range(rs)}] :
        \A n \in Range(rs) : t[n] \in SeqsOver(RepoPaths[n])}

Remotes == UNION {{[repos |-> rs, trees |-> t] : t \in TreesOf(rs)} : rs \in Listings}

\* ------------------------------------------------------------ the store

\* new Date().toISOString(): the ISO string of a millisecond time (one string per time)
ToISOString(t) == <<"iso", t>>

\* FileEntry values a persisted cache can hold for a path: the current or an old
\* SHA, fetched at PrevTime; lastFetched may be missing in a hand-written file
FileEntries(name, path) ==
    {[sha |-> s, lastFetched |-> PrevTime] : s \in {RemoteSha(name, path), OldSha}}
    \cup {[sha |-> RemoteSha(name, path)]}

\* RepoCache values for one repository: any subset of its paths cached
RepoCaches(name) ==
    UNION {{[files |-> f] :
               f \in {g \in [ps -> UNION {FileEntries(name, p) : p \in ps}] :
                         \A p \in ps : g[p] \in FileEntries(name, p)}}
           : ps \in SUBSET RepoPaths[name]}

\* ScrapeState values a state file can hold: any subset of the repositories cached
StoredStates ==
    UNION {{[repos |-> r, lastScrape |-> ToISOString(PrevTime)] :
               r \in {g \in [{FullName(n) : n \in ns} -> UNION {RepoCaches(n) : n \in ns}] :
                         \A n \in ns : g[FullName(n)] \in RepoCaches(n)}}
           : ns \in SUBSET RepoNames}

\* { repos: {} }
EmptyState == [repos |-> <<>>]

\* f with key k set to v (obj[k] = v)
Put(f, k, v) == [x \in DOMAIN f \cup {k} |-> IF x = k THEN v ELSE f[x]]

\* { ...defaults, ...p }
Spread(defaults, p) ==
    [k \in DOMAIN defaults \cup DOMAIN p |-> IF k \in DOMAIN p THEN p[k] ELSE defaults[k]]

\* ------------------------------------------------------------- scrapeOrg

\* Mutant: the zero defaults are spread after the given fields ({ ...p, fetched: 0, ... })
Emit_DefaultsLast(p) == Spread(p, [fetched |-> 0, skipped |-> 0, total |-> 0])

\* emit: the event the sink receives for p
Emit(p) == Spread([fetched |-> 0, skipped |-> 0, total |-> 0], p)

\* Mutant of Retained: the filter is not applied
Retained_IgnoresFilter(allRepos, cfg) == allRepos

\* repoFilter ? allRepos.filter((r) => repoFilter.test(r.name)) : allRepos
\* A repoFilter is modelled by the set of short names its pattern matches;
\* a config without the field has no filter.
Retained(allRepos, cfg) ==
    IF "repoFilter" \in DOMAIN cfg
    THEN SelectSeq(allRepos, LAMBDA r : r.name \in cfg.repoFilter)
    ELSE allRepos

\* const [owner, repoName] = repo.full_name.split('/')
RepoNameOf(full_name) == CHOOSE n \in RepoNames : FullName(n) = full_name

\* prevState.repos[full]?.files[path] is defined
HasPrevEntry(prev, full, path) ==
    /\ full \in DOMAIN prev.repos
    /\ path \in DOMAIN prev.repos[full].files

\* prevEntry?.sha === file.sha
ShaUnchanged(prev, full, file) ==
    /\ HasPrevEntry(prev, full, file.path)
    /\ prev.repos[full].files[file.path].sha = file.sha

\* Mutant: any path already in the cache is skipped, whatever its SHA
SkipFile_AnyCachedPath(prev, full, file) == HasPrevEntry(prev, full, file.path)

\* Mutant: no entry is ever skipped
SkipFile_Never(prev, full, file) == FALSE

\* Mutant: only an entry the cache holds with another SHA is fetched
SkipFile_UnlessChanged(prev, full, file) ==
    \/ ~HasPrevEntry(prev, full, file.path)
    \/ ShaUnchanged(prev, full, file)

\* if (prevEntry?.sha === file.sha) { totalSkipped++; ...; continue; }
SkipFile(prev, full, file) == ShaUnchanged(prev, full, file)

\* Mutant: every recorded entry is stamped with the current time
LastFetched_AlwaysNow(prev, full, file, t) == t

\* Mutant: the timestamp of a cached path is kept whether or not its SHA changed
LastFetched_KeepsPrevious(prev, full, file, t) ==
    IF HasPrevEntry(prev, full, file.path)
    THEN LET e == prev.repos[full].files[file.path]
         IN  IF "lastFetched" \in DOMAIN e THEN e.lastFetched ELSE t
    ELSE t

\* prevEntry?.sha === file.sha ? (prevEntry.lastFetched ?? Date.now()) : Date.now()
LastFetched(prev, full, file, t) ==
    IF ShaUnchanged(prev, full, file)
    THEN LET e == prev.repos[full].files[file.path]
         IN  IF "lastFetched" \in DOMAIN e THEN e.lastFetched ELSE t
    ELSE t

\* The cache entry recorded for a tree entry
NewEntry(prev, full, file, t) ==
    [sha |-> file.sha, lastFetched |-> LastFetched(prev, full, file, t)]

\* Mutant: the new bucket starts from the previous bucket of the repository
NewBucket_KeepPrevious(full) ==
    IF full \in DOMAIN prevState.repos THEN prevState.repos[full] ELSE [files |-> <<>>]

\* newState.repos[repo.full_name] = { files: {} }
NewBucket(full) == [files |-> <<>>]

\* Mutant: the record names the repository by its short name
ScrapedFile_ShortName(full, file, content) ==
    [repo |-> RepoNameOf(full), path |-> file.path, content |-> content, sha |-> file.sha]

\* { repo: repo.full_name, path: file.path, content, sha: file.sha }
ScrapedFile(full, file, content) ==
    [repo |-> full, path |-> file.path, content |-> content, sha |-> file.sha]

\* Values Date.now() can return at a read: the clock has advanced by 0 or 1 ms
ClockReads == {t \in {now, now + 1} : t <= MaxClock}

\* listOrgRepos: the descriptors of the organisation's repositories, in listing order
ListOrgRepos == [k \in 1..Len(remote.repos) |-> RepoDescriptor(remote.repos[k])]

\* getRepoTree: the Markdown blob entries of a repository, in tree order
GetRepoTree(repoName) ==
    [k \in 1..Len(remote.trees[repoName]) |-> TreeEntry(repoName, remote.trees[repoName][k])]

\* getFileContent: the decoded content of a path
GetFileContent(repoName, path) == RemoteContent(repoName, path)

\* ScrapeStatus: Math.round(((fetched + skipped) / total) * 100), 0 without total
\* (Math.round rounds halves up)
Pct(progress) ==
    IF progress.total > 0
    THEN (200 * (progress.fetched + progress.skipped) + progress.total)
             \div (2 * progress.total)
    ELSE 0

\* ------------------------------------------------ the throttled client

\* onRateLimit retries while retryCount < 3
RetryLimit == 3

\* onRateLimit(retryAfter, options, octokit, retryCount): true asks for a retry
OnRateLimit(retryCount) == retryCount < RetryLimit

\* onSecondaryRateLimit(retryAfter, options): true asks for a retry
OnSecondaryRateLimit(retryCount) == TRUE

\* What the throttling plugin is told when a response of the kind arrives
WantRetry(kind, retryCount) ==
    IF kind = "primary" THEN OnRateLimit(retryCount) ELSE OnSecondaryRateLimit(retryCount)

\* The requests the client functions make
RequestUrls ==
    {"GET /orgs/{org}/repos",
     "GET /repos/{owner}/{repo}/git/trees/{tree_sha}",
     "GET /repos/{owner}/{repo}/contents/{path}"}

NoRequest == [status |-> "none"]

Nothing == [kind |-> "none"]

\* No client function is under way
ClientUnused ==
    /\ request = NoRequest
    /\ served = Nothing
    /\ clientResult = Nothing

\* String.prototype.endsWith
EndsWith(str, suffix) ==
    /\ Len(str) >= Len(suffix)
    /\ SubSeq(str, Len(str) - Len(suffix) + 1, Len(str)) = suffix

\* Mutant: the entry's type is not looked at
IsMarkdownBlob_AnyType(item) ==
    /\ "path" \in DOMAIN item
    /\ EndsWith(item.path, ".md")

\* item.type === 'blob' && item.path?.endsWith('.md')
IsMarkdownBlob(item) ==
    /\ item.type = "blob"
    /\ "path" \in DOMAIN item
    /\ EndsWith(item.path, ".md")

\* getRepoTree: the entries of data.tree that pass the filter, in the order
\* of the tree, as { path, sha, type }; data.truncated only logs a warning
GetRepoTreeFrom(data) ==
    LET kept == SelectSeq(data.tree, IsMarkdownBlob)
    IN  [k \in 1..Len(kept) |->
            [path |-> kept[k].path, sha |-> kept[k].sha, type |-> kept[k].type]]

\* listOrgRepos: the descriptors of the repositories of every page the
\* iterator yields, page after page, each page in its order; a repository
\* without default branch gets 'HEAD'
RECURSIVE ListOrgReposFrom(_)
ListOrgReposFrom(pages) ==
    IF pages = <<>> THEN <<>>
    ELSE [k \in 1..Len(pages[1]) |->
             [name |-> pages[1][k].name,
              full_name |-> pages[1][k].full_name,
              default_branch |-> IF "default_branch" \in DOMAIN pages[1][k]
                                 THEN pages[1][k].default_branch ELSE "HEAD"]]
         \o ListOrgReposFrom(Tail(pages))

\* -------------------------------------------------- the persisted state

\* JSON.stringify(state) as written to the state file / localStorage entry
Serialise(state) == [kind |-> "json", value |-> state]

Absent == [kind |-> "absent"]

\* A state file whose text JSON.parse rejects
Corrupt == [kind |-> "text"]

\* The caller's load of the previous state: a missing file or entry leaves
\* { repos: {} }, and so does a text JSON.parse rejects (the catch only warns);
\* whatever JSON.parse returns is assigned to prevState before anything looks
\* at its shape, and stays assigned when the CLI's log line then throws.
LoadState(persisted) ==
    IF persisted.kind = "json" THEN persisted.value ELSE EmptyState

\* prevState.repos[full]?.files[path] throws a TypeError when prevState has no
\* repos member, or when the repository's bucket is there without a files member
PrevLookupThrows(prev, full) ==
    \/ "repos" \notin DOMAIN prev
    \/ /\ full \in DOMAIN prev.repos
       /\ "files" \notin DOMAIN prev.repos[full]

\* ------------------------------------------------------- the browser form

\* The calls OrgScraper makes on the App: handleStart and handleDone(files)
OnStart == [call |-> "onStart"]
OnDone(files) == [call |-> "onDone", files |-> files]

\* ------------------------------------------------------- the docs directory

\* The CLI's docs directory
DocsDir == "docs"

\* path.join(docsDir, file.repo, file.path): file.repo is the owner/name and
\* file.path the path inside the repository, both joined below the directory
DestPath(file) == DocsDir \o "/" \o file.repo \o "/" \o file.path

\* The directory after the write loop has written the first n files, in order:
\* mkdirSync creates the parents, writeFileSync creates or overwrites the file
RECURSIVE WriteFiles(_, _, _)
WriteFiles(dir, files, n) ==
    IF n = 0 THEN dir
    ELSE Put(WriteFiles(dir, files, n - 1), DestPath(files[n]), files[n].content)

\* The directory next to a state file when the behaviour starts: the earlier
\* runs that produced the store wrote one file for each of its entries, with
\* the content the entry's sha stood for
DocsOf(persisted) ==
    LET st == LoadState(persisted)
        buckets == IF "repos" \in DOMAIN st THEN st.repos ELSE <<>>
        withFiles == {full \in DOMAIN buckets : "files" \in DOMAIN buckets[full]}
        E == UNION {{<<full, path>> : path \in DOMAIN buckets[full].files} : full \in withFiles}
        at(d) == CHOOSE e \in E : DestPath([repo |-> e[1], path |-> e[2]]) = d
        known(full) == \E n \in RepoNames : FullName(n) = full
    IN [d \in {DestPath([repo |-> e[1], path |-> e[2]]) : e \in E} |->
            IF known(at(d)[1]) /\ buckets[at(d)[1]].files[at(d)[2]].sha # OldSha
            THEN RemoteContent(RepoNameOf(at(d)[1]), at(d)[2])
            ELSE "# Earlier content"]

\* What a state file can hold when the behaviour starts
Persisted == {Absent} \cup {Serialise(st) : st \in StoredStates}

\* The callers: the CLI (runScrape, scripts/scrape) with or without --repo-filter,
\* and the browser form, which passes no filter.
Configs ==
    {[caller |-> "cli", org |-> Org],
     [caller |-> "cli", org |-> Org, repoFilter |-> {"a"}],
     [caller |-> "ui", org |-> Org]}

\* ------------------------------------------------------------------ Init

BlankLocals ==
    /\ prevState = EmptyState
    /\ newState = EmptyState
    /\ results = <<>>
    /\ repos = <<>>
    /\ totalFetched = 0
    /\ totalSkipped = 0
    /\ totalFiles = 0
    /\ mdFiles = <<>>
    /\ ri = 0
    /\ fi = 0
    /\ events = <<>>
    /\ requested = <<>>
    /\ treeOk = {}
    /\ treeFailed = {}
    /\ fetchFailed = {}

Init ==
    /\ remote \in Remotes
    /\ config \in Configs
    /\ stateFile \in Persisted
    /\ now = StartTime
    /\ runsLeft = 1
    /\ pc = "idle"
    /\ BlankLocals
    /\ abortRef = FALSE
    /\ ClientUnused
    /\ runs = <<>>
    /\ docs = DocsOf(stateFile)
    /\ running = FALSE
    /\ uiLog = <<>>

\* --------------------------------------------------------------- actions

\* The caller (the browser form after resetting its abortRef) loads the
\* previous state and calls scrapeOrg, which runs up to its first await: the
\* 'repos' event is emitted and the listing requested.
BeginScrape ==
    /\ pc = "idle"
    /\ runsLeft > 0
    /\ IF config.caller = "ui"
       THEN /\ ~running
            /\ running' = TRUE
            /\ uiLog' = <<OnStart>>
       ELSE UNCHANGED uiVars
    /\ \E t \in ClockReads :
        /\ now' = t
        /\ newState' = [repos |-> <<>>, lastScrape |-> ToISOString(t)]
    /\ prevState' = LoadState(stateFile)
    /\ results' = <<>>
    /\ events' = <<Emit([phase |-> "repos", message |-> "Listing repositories for " \o config.org])>>
    /\ abortRef' = IF config.caller = "ui" THEN FALSE ELSE abortRef
    /\ runsLeft' = runsLeft - 1
    /\ pc' = "listing"
    /\ UNCHANGED <<remote, config, clientVars, stateFile, docs, repos, totalFetched, totalSkipped, totalFiles,
                   mdFiles, ri, fi, requested, treeOk, treeFailed, fetchFailed, runs>>

\* listOrgRepos resolves: the filter is applied and the counters start at 0
ListOrgReposOk ==
    /\ pc = "listing"
    /\ repos' = Retained(ListOrgRepos, config)
    /\ totalFetched' = 0
    /\ totalSkipped' = 0
    /\ totalFiles' = 0
    /\ ri' = 1
    /\ pc' = "repoLoop"
    /\ UNCHANGED <<envVars, stateFile, now, runsLeft, prevState, newState, results,
                   mdFiles, fi, histVars, runs>>

\* listOrgRepos rejects: the await throws, scrapeOrg rejects
ListOrgReposFail ==
    /\ pc = "listing"
    /\ pc' = "threw"
    /\ UNCHANGED <<envVars, stateFile, now, runsLeft, engineVars, histVars, runs>>

\* Mutant: the tree is requested without a 'tree' event
RepoLoopNext_NoEvent ==
    /\ pc = "repoLoop"
    /\ ri <= Len(repos)
    /\ pc' = "tree"
    /\ UNCHANGED <<envVars, stateFile, now, runsLeft, engineVars, histVars, runs>>

\* Head of the repository loop with a repository left: the 'tree' event is
\* emitted and the tree requested
RepoLoopNext ==
    /\ pc = "repoLoop"
    /\ ri <= Len(repos)
    /\ events' = Append(events,
            Emit([phase |-> "tree", repo |-> repos[ri].full_name, fetched |-> totalFetched,
                  skipped |-> totalSkipped, total |-> totalFiles]))
    /\ pc' = "tree"
    /\ UNCHANGED <<envVars, stateFile, now, runsLeft, engineVars, requested, treeOk,
                   treeFailed, fetchFailed, runs>>

\* Mutant: the repository's bucket is reset in the previous store as well
GetRepoTreeOk_ResetsPrevBucket ==
    /\ pc = "tree"
    /\ LET repo == repos[ri]
           tree == GetRepoTree(RepoNameOf(repo.full_name))
       IN  /\ mdFiles' = tree
           /\ totalFiles' = totalFiles + Len(tree)
           /\ newState' = [newState EXCEPT
                  !.repos = Put(newState.repos, repo.full_name, NewBucket(repo.full_name))]
           /\ prevState' = [prevState EXCEPT
                  !.repos = Put(prevState.repos, repo.full_name, NewBucket(repo.full_name))]
           /\ treeOk' = treeOk \cup {repo.full_name}
    /\ fi' = 1
    /\ pc' = "fileLoop"
    /\ UNCHANGED <<envVars, stateFile, now, runsLeft, results, repos,
                   totalFetched, totalSkipped, ri, events, requested, treeFailed,
                   fetchFailed, runs>>

\* getRepoTree resolves: the total grows and the repository gets a new, empty bucket
GetRepoTreeOk ==
    /\ pc = "tree"
    /\ LET repo == repos[ri]
           tree == GetRepoTree(RepoNameOf(repo.full_name))
       IN  /\ mdFiles' = tree
           /\ totalFiles' = totalFiles + Len(tree)
           /\ newState' = [newState EXCEPT
                  !.repos = Put(newState.repos, repo.full_name, NewBucket(repo.full_name))]
           /\ treeOk' = treeOk \cup {repo.full_name}
    /\ fi' = 1
    /\ pc' = "fileLoop"
    /\ UNCHANGED <<envVars, stateFile, now, runsLeft, prevState, results, repos,
                   totalFetched, totalSkipped, ri, events, requested, treeFailed,
                   fetchFailed, runs>>

\* Mutant: a rejected tree listing ends the repository loop
GetRepoTreeFail_EndsLoop ==
    /\ pc = "tree"
    /\ treeFailed' = treeFailed \cup {repos[ri].full_name}
    /\ ri' = Len(repos) + 1
    /\ pc' = "repoLoop"
    /\ UNCHANGED <<envVars, stateFile, now, runsLeft, prevState, newState, results, repos,
                   totalFetched, totalSkipped, totalFiles, mdFiles, fi, events, requested,
                   treeOk, fetchFailed, runs>>

\* Mutant: a repository whose tree listing is rejected keeps its previous bucket
GetRepoTreeFail_KeepsPrevBucket ==
    /\ pc = "tree"
    /\ treeFailed' = treeFailed \cup {repos[ri].full_name}
    /\ newState' =
          IF repos[ri].full_name \in DOMAIN prevState.repos
          THEN [newState EXCEPT
                  !.repos = Put(newState.repos, repos[ri].full_name,
                                prevState.repos[repos[ri].full_name])]
          ELSE newState
    /\ ri' = ri + 1
    /\ pc' = "repoLoop"
    /\ UNCHANGED <<envVars, stateFile, now, runsLeft, prevState, results, repos,
                   totalFetched, totalSkipped, totalFiles, mdFiles, fi, events, requested,
                   treeOk, fetchFailed, runs>>

\* getRepoTree rejects: a warning is logged and the loop continues
GetRepoTreeFail ==
    /\ pc = "tree"
    /\ treeFailed' = treeFailed \cup {repos[ri].full_name}
    /\ ri' = ri + 1
    /\ pc' = "repoLoop"
    /\ UNCHANGED <<envVars, stateFile, now, runsLeft, prevState, newState, results, repos,
                   totalFetched, totalSkipped, totalFiles, mdFiles, fi, events, requested,
                   treeOk, fetchFailed, runs>>

\* Mutant: the content request is issued without being awaited, the loop goes on
FileLoopNext_NoAwait ==
    /\ pc = "fileLoop"
    /\ fi <= Len(mdFiles)
    /\ LET full == repos[ri].full_name
           file == mdFiles[fi]
       IN  IF PrevLookupThrows(prevState, full)
           THEN /\ pc' = "threw"
                /\ UNCHANGED <<now, newState, totalSkipped, events, fi, requested>>
           ELSE /\ \E t \in ClockReads :
                    /\ now' = t
                    /\ newState' = [newState EXCEPT
                           !.repos[full].files =
                               Put(newState.repos[full].files, file.path,
                                   NewEntry(prevState, full, file, t))]
                /\ IF SkipFile(prevState, full, file)
                   THEN /\ totalSkipped' = totalSkipped + 1
                        /\ events' = Append(events,
                               Emit([phase |-> "files", repo |-> full,
                                     fetched |-> totalFetched,
                                     skipped |-> totalSkipped + 1, total |-> totalFiles]))
                        /\ fi' = fi + 1
                        /\ pc' = "fileLoop"
                        /\ UNCHANGED requested
                   ELSE /\ events' = Append(events,
                               Emit([phase |-> "files", repo |-> full,
                                     fetched |-> totalFetched,
                                     skipped |-> totalSkipped, total |-> totalFiles,
                                     message |-> "Fetching " \o full \o "/" \o file.path]))
                        /\ requested' = Append(requested, <<full, file.path>>)
                        /\ fi' = fi + 1
                        /\ pc' = "fileLoop"
                        /\ UNCHANGED totalSkipped
    /\ UNCHANGED <<envVars, stateFile, runsLeft, prevState, results, repos, totalFetched,
                   totalFiles, mdFiles, ri, treeOk, treeFailed, fetchFailed, runs>>

\* Head of the file loop with an entry left: the previous entry is looked up,
\* which throws out of scrapeOrg when the previous state has not the shape of a
\* store; otherwise the entry's cache entry is recorded; an
\* unchanged entry is counted as skipped and reported, a new or changed one is
\* reported and its content requested
FileLoopNext ==
    /\ pc = "fileLoop"
    /\ fi <= Len(mdFiles)
    /\ LET full == repos[ri].full_name
           file == mdFiles[fi]
       IN  IF PrevLookupThrows(prevState, full)
           THEN /\ pc' = "threw"
                /\ UNCHANGED <<now, newState, totalSkipped, events, fi, requested>>
           ELSE /\ \E t \in ClockReads :
                    /\ now' = t
                    /\ newState' = [newState EXCEPT
                           !.repos[full].files =
                               Put(newState.repos[full].files, file.path,
                                   NewEntry(prevState, full, file, t))]
                /\ IF SkipFile(prevState, full, file)
                   THEN /\ totalSkipped' = totalSkipped + 1
                        /\ events' = Append(events,
                               Emit([phase |-> "files", repo |-> full,
                                     fetched |-> totalFetched,
                                     skipped |-> totalSkipped + 1, total |-> totalFiles]))
                        /\ fi' = fi + 1
                        /\ pc' = "fileLoop"
                        /\ UNCHANGED requested
                   ELSE /\ events' = Append(events,
                               Emit([phase |-> "files", repo |-> full,
                                     fetched |-> totalFetched,
                                     skipped |-> totalSkipped, total |-> totalFiles,
                                     message |-> "Fetching " \o full \o "/" \o file.path]))
                        /\ requested' = Append(requested, <<full, file.path>>)
                        /\ pc' = "content"
                        /\ UNCHANGED <<totalSkipped, fi>>
    /\ UNCHANGED <<envVars, stateFile, runsLeft, prevState, results, repos, totalFetched,
                   totalFiles, mdFiles, ri, treeOk, treeFailed, fetchFailed, runs>>

\* Mutant: the record is put in front of the list (results.unshift)
GetFileContentOk_Prepends ==
    /\ pc = "content"
    /\ LET full == repos[ri].full_name
           file == mdFiles[fi]
       IN  results' = <<ScrapedFile(full, file, GetFileContent(RepoNameOf(full), file.path))>>
                         \o results
    /\ totalFetched' = totalFetched + 1
    /\ fi' = fi + 1
    /\ pc' = "fileLoop"
    /\ UNCHANGED <<envVars, stateFile, now, runsLeft, prevState, newState, repos,
                   totalSkipped, totalFiles, mdFiles, ri, histVars, runs>>

\* getFileContent resolves: the record is appended and counted
GetFileContentOk ==
    /\ pc = "content"
    /\ LET full == repos[ri].full_name
           file == mdFiles[fi]
       IN  results' = Append(results,
               ScrapedFile(full, file, GetFileContent(RepoNameOf(full), file.path)))
    /\ totalFetched' = totalFetched + 1
    /\ fi' = fi + 1
    /\ pc' = "fileLoop"
    /\ UNCHANGED <<envVars, stateFile, now, runsLeft, prevState, newState, repos,
                   totalSkipped, totalFiles, mdFiles, ri, histVars, runs>>

\* Mutant: a rejected content fetch ends the file loop of the repository
GetFileContentFail_EndsLoop ==
    /\ pc = "content"
    /\ fetchFailed' = fetchFailed \cup {<<repos[ri].full_name, mdFiles[fi].path>>}
    /\ fi' = Len(mdFiles) + 1
    /\ pc' = "fileLoop"
    /\ UNCHANGED <<envVars, stateFile, now, runsLeft, prevState, newState, results, repos,
                   totalFetched, totalSkipped, totalFiles, mdFiles, ri, events, requested,
                   treeOk, treeFailed, runs>>

\* Mutant: a rejected content fetch is counted as a skipped file
GetFileContentFail_CountsSkipped ==
    /\ pc = "content"
    /\ fetchFailed' = fetchFailed \cup {<<repos[ri].full_name, mdFiles[fi].path>>}
    /\ totalSkipped' = totalSkipped + 1
    /\ fi' = fi + 1
    /\ pc' = "fileLoop"
    /\ UNCHANGED <<envVars, stateFile, now, runsLeft, prevState, newState, results, repos,
                   totalFetched, totalFiles, mdFiles, ri, events, requested,
                   treeOk, treeFailed, runs>>

\* getFileContent rejects: a warning is logged and the loop continues
GetFileContentFail ==
    /\ pc = "content"
    /\ fetchFailed' = fetchFailed \cup {<<repos[ri].full_name, mdFiles[fi].path>>}
    /\ fi' = fi + 1
    /\ pc' = "fileLoop"
    /\ UNCHANGED <<envVars, stateFile, now, runsLeft, prevState, newState, results, repos,
                   totalFetched, totalSkipped, totalFiles, mdFiles, ri, events, requested,
                   treeOk, treeFailed, runs>>

\* The file loop is exhausted: on to the next repository
FileLoopEnd ==
    /\ pc = "fileLoop"
    /\ fi > Len(mdFiles)
    /\ ri' = ri + 1
    /\ pc' = "repoLoop"
    /\ UNCHANGED <<envVars, stateFile, now, runsLeft, prevState, newState, results, repos,
                   totalFetched, totalSkipped, totalFiles, mdFiles, fi, histVars, runs>>

\* Mutant: scrapeOrg resolves without a 'done' event
ScrapeReturn_NoDone ==
    /\ pc = "repoLoop"
    /\ ri > Len(repos)
    /\ pc' = "returned"
    /\ UNCHANGED <<envVars, stateFile, now, runsLeft, engineVars, histVars, runs>>

\* The repository loop is exhausted: the 'done' event is emitted and scrapeOrg
\* resolves with { files: results, state: newState }
ScrapeReturn ==
    /\ pc = "repoLoop"
    /\ ri > Len(repos)
    /\ events' = Append(events,
            Emit([phase |-> "done", fetched |-> totalFetched, skipped |-> totalSkipped,
                  total |-> totalFiles]))
    /\ pc' = "returned"
    /\ UNCHANGED <<envVars, stateFile, now, runsLeft, engineVars, requested, treeOk,
                   treeFailed, fetchFailed, runs>>

\* What the history keeps of a scrapeOrg call when its caller has dealt with it
RunRecord(outcome) ==
    [outcome |-> outcome, prev |-> prevState, files |-> results, state |-> newState,
     events |-> events, requested |-> requested, treeOk |-> treeOk,
     treeFailed |-> treeFailed, fetchFailed |-> fetchFailed]

\* The locals of the finished call are gone
DropLocals ==
    /\ prevState' = EmptyState
    /\ newState' = EmptyState
    /\ results' = <<>>
    /\ repos' = <<>>
    /\ totalFetched' = 0
    /\ totalSkipped' = 0
    /\ totalFiles' = 0
    /\ mdFiles' = <<>>
    /\ ri' = 0
    /\ fi' = 0
    /\ events' = <<>>
    /\ requested' = <<>>
    /\ treeOk' = {}
    /\ treeFailed' = {}
    /\ fetchFailed' = {}

\* Mutant: the directory is made a mirror of the new store, the files of
\* entries the store no longer holds being removed
CliPersist_Prunes ==
    /\ pc = "returned"
    /\ config.caller = "cli"
    /\ docs' = LET written == WriteFiles(docs, results, Len(results))
                   kept == {d \in DOMAIN written :
                               \E full \in DOMAIN newState.repos :
                                   \E path \in DOMAIN newState.repos[full].files :
                                       d = DestPath([repo |-> full, path |-> path])}
               IN [d \in kept |-> written[d]]
    /\ stateFile' = Serialise(newState)
    /\ runs' = Append(runs, RunRecord("returned"))
    /\ DropLocals
    /\ pc' = "idle"
    /\ UNCHANGED <<remote, config, abortRef, clientVars, uiVars, now, runsLeft>>

\* runScrape / scripts/scrape after scrapeOrg resolved: the files are written
\* and the state file is replaced by the new state
CliPersist ==
    /\ pc = "returned"
    /\ config.caller = "cli"
    /\ docs' = WriteFiles(docs, results, Len(results))
    /\ stateFile' = Serialise(newState)
    /\ runs' = Append(runs, RunRecord("returned"))
    /\ DropLocals
    /\ pc' = "idle"
    /\ UNCHANGED <<remote, config, abortRef, clientVars, uiVars, now, runsLeft>>

\* Mutant: a failed write is followed by the state write all the same
CliWriteFail_SavesState ==
    /\ pc = "returned"
    /\ config.caller = "cli"
    /\ \E k \in 1..(Len(results) + 1) :
        docs' = WriteFiles(docs, results, k - 1)
    /\ stateFile' = Serialise(newState)
    /\ runs' = Append(runs, RunRecord("writeFailed"))
    /\ DropLocals
    /\ pc' = "idle"
    /\ UNCHANGED <<remote, config, abortRef, clientVars, uiVars, now, runsLeft>>

\* runScrape / scripts/scrape after scrapeOrg resolved, when mkdirSync or
\* writeFileSync throws at the k-th file, or writeFileSync at the state file
\* (k = Len(results) + 1): the files before it are written, the exception
\* reaches main().catch (or the top level) and the state file is not written
CliWriteFail ==
    /\ pc = "returned"
    /\ config.caller = "cli"
    /\ \E k \in 1..(Len(results) + 1) :
        docs' = WriteFiles(docs, results, k - 1)
    /\ runs' = Append(runs, RunRecord("writeFailed"))
    /\ DropLocals
    /\ pc' = "idle"
    /\ UNCHANGED <<remote, config, abortRef, clientVars, uiVars, stateFile, now, runsLeft>>

\* Mutant: the state is persisted on the way out of a failed scrape as well
CliFatal_SavesState ==
    /\ pc = "threw"
    /\ config.caller = "cli"
    /\ stateFile' = Serialise(newState)
    /\ runs' = Append(runs, RunRecord("threw"))
    /\ DropLocals
    /\ pc' = "idle"
    /\ UNCHANGED <<envVars, now, runsLeft>>

\* runScrape / scripts/scrape when scrapeOrg rejected: the rejection reaches
\* main().catch (or the top level) and the process exits with nothing written
CliFatal ==
    /\ pc = "threw"
    /\ config.caller = "cli"
    /\ runs' = Append(runs, RunRecord("threw"))
    /\ DropLocals
    /\ pc' = "idle"
    /\ UNCHANGED <<envVars, stateFile, now, runsLeft>>

\* OrgScraper.handleSubmit after scrapeOrg resolved: the localStorage entry is
\* replaced and onDone(files) called
UiPersist ==
    /\ pc = "returned"
    /\ config.caller = "ui"
    /\ stateFile' = Serialise(newState)
    /\ uiLog' = Append(uiLog, OnDone(results))
    /\ running' = FALSE
    /\ runs' = Append(runs, RunRecord("returned"))
    /\ DropLocals
    /\ pc' = "idle"
    /\ UNCHANGED <<remote, config, abortRef, clientVars, docs, now, runsLeft>>

\* OrgScraper.handleSubmit after scrapeOrg resolved, when
\* localStorage.setItem(STATE_KEY, ..) throws (the quota is exceeded): the
\* catch block runs, setError and onDone([]), and the entry is not replaced
UiPersistFails ==
    /\ pc = "returned"
    /\ config.caller = "ui"
    /\ uiLog' = Append(uiLog, OnDone(<<>>))
    /\ running' = FALSE
    /\ runs' = Append(runs, RunRecord("persistFailed"))
    /\ DropLocals
    /\ pc' = "idle"
    /\ UNCHANGED <<remote, config, abortRef, clientVars, docs, stateFile, now, runsLeft>>

\* OrgScraper.handleSubmit when localStorage.setItem('doc-slurp:org', ..) or
\* ('doc-slurp:token', ..) throws: onStart() has been called, the statement is
\* in no try block, handleSubmit rejects before scrapeOrg is called and
\* nothing calls onDone
UiStartFails ==
    /\ pc = "idle"
    /\ runsLeft > 0
    /\ config.caller = "ui"
    /\ ~running
    /\ abortRef' = FALSE
    /\ running' = TRUE
    /\ uiLog' = <<OnStart>>
    /\ runsLeft' = runsLeft - 1
    /\ UNCHANGED <<remote, config, clientVars, docs, stateFile, now, pc, engineVars,
                   histVars, runs>>

\* OrgScraper.handleSubmit when scrapeOrg rejected: setError, onDone([])
UiCatch ==
    /\ pc = "threw"
    /\ config.caller = "ui"
    /\ uiLog' = Append(uiLog, OnDone(<<>>))
    /\ running' = FALSE
    /\ runs' = Append(runs, RunRecord("threw"))
    /\ DropLocals
    /\ pc' = "idle"
    /\ UNCHANGED <<remote, config, abortRef, clientVars, docs, stateFile, now, runsLeft>>

Next ==
    \/ BeginScrape
    \/ ListOrgReposOk
    \/ ListOrgReposFail
    \/ RepoLoopNext
    \/ GetRepoTreeOk
    \/ GetRepoTreeFail
    \/ FileLoopNext
    \/ GetFileContentOk
    \/ GetFileContentFail
    \/ FileLoopEnd
    \/ ScrapeReturn
    \/ CliPersist
    \/ CliFatal
    \/ UiPersist
    \/ UiCatch

\* One scrape, from any persisted state
Spec == Init /\ [][Next]_vars

\* MaxRuns scrapes one after another against the same organisation, each fed
\* what the one before persisted; the first is a first-ever run or starts from
\* a cache holding an old, an unchanged and an undated entry.
SeedState ==
    [repos |->
        [n \in {FullName("a"), FullName("b")} |->
            IF n = FullName("a")
            THEN [files |->
                    [p \in RepoPaths["a"] |->
                        IF p = "README.md"
                        THEN [sha |-> OldSha, lastFetched |-> PrevTime]
                        ELSE [sha |-> RemoteSha("a", p)]]]
            ELSE [files |->
                    [p \in RepoPaths["b"] |->
                        [sha |-> RemoteSha("b", p), lastFetched |-> PrevTime]]]],
     lastScrape |-> ToISOString(PrevTime)]

InitRerun ==
    /\ remote \in Remotes
    /\ config \in Configs
    /\ stateFile \in {Absent, Serialise(SeedState)}
    /\ now = StartTime
    /\ runsLeft = MaxRuns
    /\ pc = "idle"
    /\ BlankLocals
    /\ abortRef = FALSE
    /\ ClientUnused
    /\ runs = <<>>
    /\ docs = DocsOf(stateFile)
    /\ running = FALSE
    /\ uiLog = <<>>

SpecRerun == InitRerun /\ [][Next]_vars

\* The same scrapes one after another on a machine whose disk, or in a browser
\* whose storage, can refuse a write: mkdirSync, writeFileSync and
\* localStorage.setItem may throw wherever the callers use them.  The filter
\* and the timestamps play no part in what the callers write where: no filter
\* is given and every clock read returns the same millisecond.
NextFaulty == Next \/ CliWriteFail \/ UiPersistFails \/ UiStartFails

ConfigsDisk == {c \in Configs : "repoFilter" \notin DOMAIN c}

InitDisk ==
    /\ remote \in Remotes
    /\ config \in ConfigsDisk
    /\ stateFile \in {Absent, Serialise(SeedState)}
    /\ now = MaxClock
    /\ runsLeft = MaxRuns
    /\ pc = "idle"
    /\ BlankLocals
    /\ abortRef = FALSE
    /\ ClientUnused
    /\ runs = <<>>
    /\ docs = DocsOf(stateFile)
    /\ running = FALSE
    /\ uiLog = <<>>

SpecDisk == InitDisk /\ [][NextFaulty]_vars

\* One scrape from a state file that is missing, is not JSON, or is JSON of
\* another shape than a store: an object without a repos member, or a store
\* one of whose buckets has no files member
NoReposState == [lastScrape |-> ToISOString(PrevTime)]

NoFilesState ==
    [repos |-> [n \in {FullName("a")} |-> [sha |-> OldSha]],
     lastScrape |-> ToISOString(PrevTime)]

MalformedPersisted == {Corrupt, Serialise(NoReposState), Serialise(NoFilesState)}

InitLoad ==
    /\ remote \in Remotes
    /\ config \in Configs
    /\ stateFile \in {Absent} \cup MalformedPersisted
    /\ now = StartTime
    /\ runsLeft = 1
    /\ pc = "idle"
    /\ BlankLocals
    /\ abortRef = FALSE
    /\ ClientUnused
    /\ runs = <<>>
    /\ docs = DocsOf(stateFile)
    /\ running = FALSE
    /\ uiLog = <<>>

SpecLoad == InitLoad /\ [][Next]_vars

\* One scrape with any repoFilter (one that matches no repository, one, or
\* both) of an organisation listed in either order
ListingsFilter == {<<"a">>, <<"a", "b">>, <<"b", "a">>}

RemotesFilter ==
    UNION {{[repos |-> rs, trees |-> t] : t \in TreesOf(rs)} : rs \in ListingsFilter}

ConfigsFilter ==
    Configs \cup {[caller |-> "cli", org |-> Org, repoFilter |-> m] : m \in SUBSET RepoNames}

InitFilter ==
    /\ remote \in RemotesFilter
    /\ config \in ConfigsFilter
    /\ stateFile \in {Absent, Serialise(SeedState)}
    /\ now = StartTime
    /\ runsLeft = 1
    /\ pc = "idle"
    /\ BlankLocals
    /\ abortRef = FALSE
    /\ ClientUnused
    /\ runs = <<>>
    /\ docs = DocsOf(stateFile)
    /\ running = FALSE
    /\ uiLog = <<>>

SpecFilter == InitFilter /\ [][Next]_vars

\* One scrape from a store whose entries carry any timestamp the wall clock
\* can have produced: one before the run starts, the millisecond the run
\* starts in, or a later one (Date.now() is the system's wall clock, which can
\* be set back, and the state file can come from another machine's cache)
StoredTimes == {PrevTime, StartTime, StartTime + 1}

ClockSeed(t) ==
    [repos |->
        [n \in {FullName("a"), FullName("b")} |->
            IF n = FullName("a")
            THEN [files |->
                    [p \in RepoPaths["a"] |->
                        IF p = "README.md"
                        THEN [sha |-> OldSha, lastFetched |-> t]
                        ELSE [sha |-> RemoteSha("a", p), lastFetched |-> t]]]
            ELSE [files |->
                    [p \in RepoPaths["b"] |-> [sha |-> OldSha, lastFetched |-> t]]]],
     lastScrape |-> ToISOString(t)]

InitClock ==
    /\ remote \in Remotes
    /\ config \in Configs
    /\ stateFile \in {Serialise(ClockSeed(t)) : t \in StoredTimes}
    /\ now = StartTime
    /\ runsLeft = 1
    /\ pc = "idle"
    /\ BlankLocals
    /\ abortRef = FALSE
    /\ ClientUnused
    /\ runs = <<>>
    /\ docs = DocsOf(stateFile)
    /\ running = FALSE
    /\ uiLog = <<>>

SpecClock == InitClock /\ [][Next]_vars

\* One scrape during which a cancellation can be asked for.  abortRef is the
\* form's cancellation flag; the form resets it when a scrape starts and holds
\* no handler that sets it, so the request comes from outside the component's
\* code: a holder of the ref sets abortRef.current while scrapeOrg awaits.
RequestAbort ==
    /\ pc \in {"listing", "tree", "content"}
    /\ config.caller = "ui"
    /\ ~abortRef
    /\ abortRef' = TRUE
    /\ UNCHANGED <<remote, config, clientVars, uiVars, stateFile, docs, now, runsLeft, pc, engineVars, histVars, runs>>

NextCancel == Next \/ RequestAbort

InitCancel ==
    /\ remote \in Remotes
    /\ config \in Configs
    /\ abortRef = FALSE
    /\ ClientUnused
    /\ stateFile \in {Absent, Serialise(SeedState)}
    /\ now = StartTime
    /\ runsLeft = 1
    /\ pc = "idle"
    /\ BlankLocals
    /\ runs = <<>>
    /\ docs = DocsOf(stateFile)
    /\ running = FALSE
    /\ uiLog = <<>>

SpecCancel == InitCancel /\ [][NextCancel]_vars

\* One scrape in which every request the engine awaits is answered in the
\* end and every continuation that can run does: the steps of scrapeOrg
\* after its call are taken under weak fairness
EngineStep ==
    \/ ListOrgReposOk
    \/ ListOrgReposFail
    \/ RepoLoopNext
    \/ GetRepoTreeOk
    \/ GetRepoTreeFail
    \/ FileLoopNext
    \/ GetFileContentOk
    \/ GetFileContentFail
    \/ FileLoopEnd
    \/ ScrapeReturn

InitLive ==
    /\ remote \in Remotes
    /\ config \in Configs
    /\ abortRef = FALSE
    /\ ClientUnused
    /\ stateFile \in {Absent, Serialise(SeedState)}
    /\ now = StartTime
    /\ runsLeft = 1
    /\ pc = "idle"
    /\ BlankLocals
    /\ runs = <<>>
    /\ docs = DocsOf(stateFile)
    /\ running = FALSE
    /\ uiLog = <<>>

SpecLive == InitLive /\ [][Next]_vars /\ WF_vars(EngineStep)

\* ------------------------------------- the client's requests on their own

\* What the scrape holds while the client alone is looked at
scrapeVars == <<remote, config, abortRef, uiVars, stateFile, docs, now, runsLeft, pc, engineVars,
                histVars, runs>>

\* A client function hands a request to the throttled Octokit
SendRequest ==
    /\ request.status \in {"none", "ok", "failed"}
    /\ \E u \in RequestUrls :
          request' = [status |-> "sent", url |-> u, retryCount |-> 0, limits |-> <<>>]
    /\ UNCHANGED <<scrapeVars, served, clientResult>>

\* GitHub answers the request
RespondOk ==
    /\ request.status = "sent"
    /\ request' = [request EXCEPT !.status = "ok"]
    /\ UNCHANGED <<scrapeVars, served, clientResult>>

\* GitHub answers with an error that is no rate limit: the call rejects
RespondError ==
    /\ request.status = "sent"
    /\ request' = [request EXCEPT !.status = "failed"]
    /\ UNCHANGED <<scrapeVars, served, clientResult>>

\* GitHub answers with a primary or a secondary rate limit: the plugin calls
\* the handler of that kind with the request's retry count; on true it counts
\* a retry and sends the request again, otherwise the call rejects
RespondRateLimit ==
    /\ request.status = "sent"
    /\ Len(request.limits) < MaxRateLimits
    /\ \E kind \in {"primary", "secondary"} :
          request' =
              IF WantRetry(kind, request.retryCount)
              THEN [request EXCEPT !.retryCount = @ + 1, !.limits = Append(@, kind)]
              ELSE [request EXCEPT !.status = "failed", !.limits = Append(@, kind)]
    /\ UNCHANGED <<scrapeVars, served, clientResult>>

NextThrottle ==
    \/ SendRequest
    \/ RespondOk
    \/ RespondError
    \/ RespondRateLimit

InitThrottle ==
    /\ remote = [repos |-> <<>>, trees |-> <<>>]
    /\ config = [caller |-> "cli", org |-> Org]
    /\ abortRef = FALSE
    /\ ClientUnused
    /\ stateFile = Absent
    /\ now = StartTime
    /\ runsLeft = 0
    /\ pc = "idle"
    /\ BlankLocals
    /\ runs = <<>>
    /\ docs = DocsOf(stateFile)
    /\ running = FALSE
    /\ uiLog = <<>>

SpecThrottle == InitThrottle /\ [][NextThrottle]_vars

\* ------------------------------------------- listOrgRepos on its own

\* Pages yielded for one listing
MaxPages == 2

\* A repository as the listForOrg endpoint describes it; default_branch can be null
ListedRepos ==
    {[name |-> n, full_name |-> FullName(n), default_branch |-> "main"] : n \in RepoNames}
    \cup {[name |-> "b", full_name |-> FullName("b")]}

\* A page: repositories in some order, none twice on the page
RepoPages == {p \in SeqsOver(ListedRepos) : \A i, j \in 1..Len(p) : p[i].name = p[j].name => i = j}

\* What paginate.iterator can yield: the listing is cut into pages at request
\* time, so a repository can come again on a later page when the listing
\* has shifted between two page requests
PageSeqs == UNION {[1..n -> RepoPages] : n \in 0..MaxPages}

\* listOrgRepos resolves with the repositories of all pages
ListOrgReposResolves ==
    /\ served.kind = "pages"
    /\ clientResult = Nothing
    /\ clientResult' = [kind |-> "resolved", value |-> ListOrgReposFrom(served.pages)]
    /\ UNCHANGED <<scrapeVars, request, served>>

\* a page request rejects: so does listOrgRepos
ListOrgReposRejects ==
    /\ served.kind = "pages"
    /\ clientResult = Nothing
    /\ clientResult' = [kind |-> "rejected"]
    /\ UNCHANGED <<scrapeVars, request, served>>

NextList ==
    \/ ListOrgReposResolves
    \/ ListOrgReposRejects

InitList ==
    /\ remote = [repos |-> <<>>, trees |-> <<>>]
    /\ config = [caller |-> "cli", org |-> Org]
    /\ abortRef = FALSE
    /\ request = NoRequest
    /\ served \in {[kind |-> "pages", pages |-> ps] : ps \in PageSeqs}
    /\ clientResult = Nothing
    /\ stateFile = Absent
    /\ now = StartTime
    /\ runsLeft = 0
    /\ pc = "idle"
    /\ BlankLocals
    /\ runs = <<>>
    /\ docs = DocsOf(stateFile)
    /\ running = FALSE
    /\ uiLog = <<>>

SpecList == InitList /\ [][NextList]_vars

\* --------------------------------------------- getRepoTree on its own

\* Entries of the tree GitHub serves for one repository
MaxTreeLen == 3

\* Entries a recursive git tree can hold: Markdown blobs, blobs of other
\* names, a directory, a directory and a submodule named like a Markdown
\* file, and an entry without path
RawItems ==
    {[path |-> "README.md", sha |-> "s1", type |-> "blob", mode |-> "100644"],
     [path |-> "docs/guide.md", sha |-> "s2", type |-> "blob", mode |-> "100644"],
     [path |-> ".md", sha |-> "s3", type |-> "blob", mode |-> "100644"],
     [path |-> "notes.MD", sha |-> "s4", type |-> "blob", mode |-> "100644"],
     [path |-> "page.mdx", sha |-> "s5", type |-> "blob", mode |-> "100644"],
     [path |-> "docs", sha |-> "s6", type |-> "tree", mode |-> "040000"],
     [path |-> "old.md", sha |-> "s7", type |-> "tree", mode |-> "040000"],
     [path |-> "vendor.md", sha |-> "s8", type |-> "commit", mode |-> "160000"],
     [sha |-> "s9", type |-> "blob", mode |-> "100644"]}

RECURSIVE SeqsUpTo(_, _)
SeqsUpTo(S, n) ==
    IF n = 0 \/ S = {} THEN {<<>>}
    ELSE {<<>>} \cup UNION {{<<x>> \o t : t \in SeqsUpTo(S \ {x}, n - 1)} : x \in S}

RawTrees ==
    {[tree |-> t, truncated |-> b] : t \in SeqsUpTo(RawItems, MaxTreeLen), b \in BOOLEAN}

\* getTree answers: getRepoTree resolves with the filtered entries
GetRepoTreeResolves ==
    /\ served.kind = "tree"
    /\ clientResult = Nothing
    /\ clientResult' = [kind |-> "resolved", value |-> GetRepoTreeFrom(served.data)]
    /\ UNCHANGED <<scrapeVars, request, served>>

\* getTree rejects: so does getRepoTree
GetRepoTreeRejects ==
    /\ served.kind = "tree"
    /\ clientResult = Nothing
    /\ clientResult' = [kind |-> "rejected"]
    /\ UNCHANGED <<scrapeVars, request, served>>

NextTree ==
    \/ GetRepoTreeResolves
    \/ GetRepoTreeRejects

InitTree ==
    /\ remote = [repos |-> <<>>, trees |-> <<>>]
    /\ config = [caller |-> "cli", org |-> Org]
    /\ abortRef = FALSE
    /\ request = NoRequest
    /\ served \in {[kind |-> "tree", data |-> d] : d \in RawTrees}
    /\ clientResult = Nothing
    /\ stateFile = Absent
    /\ now = StartTime
    /\ runsLeft = 0
    /\ pc = "idle"
    /\ BlankLocals
    /\ runs = <<>>
    /\ docs = DocsOf(stateFile)
    /\ running = FALSE
    /\ uiLog = <<>>

SpecTree == InitTree /\ [][NextTree]_vars

\* ---------------------------------------------------- claims: vocabulary

\* The tree entries the remote reports for a repository, as a set
TreeEntries(full) == Range(GetRepoTree(RepoNameOf(full)))

\* The entry is new to the store prev or its fingerprint differs from the stored one
NewOrChanged(prev, full, file) ==
    \/ full \notin DOMAIN prev.repos
    \/ file.path \notin DOMAIN prev.repos[full].files
    \/ prev.repos[full].files[file.path].sha # file.sha

\* The clock values read so far in the current run: from the one stamped
\* as lastScrape when the run began up to the current one
RunTimes == {t \in StartTime..now : \E t0 \in StartTime..t : newState.lastScrape = ToISOString(t0)}

\* (C1) At the return of scrapeOrg, for every tree entry of every repository
\* whose tree listing succeeded, the content was requested if and only if the
\* previous store has no entry for the path or holds another fingerprint; and
\* at no time has the content of an unchanged entry been requested.
C1_FetchIffNewOrChanged ==
    /\ \A q \in Range(requested) :
          \E file \in TreeEntries(q[1]) :
              file.path = q[2] /\ NewOrChanged(prevState, q[1], file)
    /\ pc = "returned" =>
          \A full \in treeOk : \A file \in TreeEntries(full) :
              (<<full, file.path>> \in Range(requested)) <=> NewOrChanged(prevState, full, file)

C1_Witness ==
    /\ pc = "returned"
    /\ requested # <<>>
    /\ totalSkipped > 0
    /\ \E full \in treeOk : \E file \in TreeEntries(full) :
          /\ HasPrevEntry(prevState, full, file.path)
          /\ prevState.repos[full].files[file.path].sha = OldSha

\* (C2) At the return of scrapeOrg, the bucket of every repository whose tree
\* listing succeeded has exactly the paths of the current tree as keys, each with
\* the fingerprint the tree reports, whatever the previous store held and whether
\* or not the content fetch of the path succeeded.
C2_BucketIsCurrentTree ==
    pc = "returned" =>
        \A full \in treeOk :
            /\ full \in DOMAIN newState.repos
            /\ DOMAIN newState.repos[full].files = {file.path : file \in TreeEntries(full)}
            /\ \A file \in TreeEntries(full) :
                  newState.repos[full].files[file.path].sha = file.sha

C2_Witness ==
    /\ pc = "returned"
    /\ \E full \in treeOk :
          /\ full \in DOMAIN prevState.repos
          /\ \E p \in DOMAIN prevState.repos[full].files :
                p \notin {file.path : file \in TreeEntries(full)}
          /\ \E file \in TreeEntries(full) : <<full, file.path>> \in fetchFailed

\* (C3) At the return of scrapeOrg, an entry whose fingerprint equals the one in
\* the previous store carries the previous last-fetched timestamp exactly (a
\* time read in this run only if the previous entry had none); a new or changed
\* entry carries a time read in this run.
C3_TimestampCarriedForward ==
    pc = "returned" =>
        \A full \in treeOk : \A file \in TreeEntries(full) :
            LET e == newState.repos[full].files[file.path]
            IN  IF NewOrChanged(prevState, full, file)
                THEN e.lastFetched \in RunTimes
                ELSE LET pe == prevState.repos[full].files[file.path]
                     IN  IF "lastFetched" \in DOMAIN pe
                         THEN e.lastFetched = pe.lastFetched
                         ELSE e.lastFetched \in RunTimes

C3_Witness ==
    /\ pc = "returned"
    /\ now > PrevTime
    /\ \E full \in treeOk : \E f1, f2 \in TreeEntries(full) :
          /\ ~NewOrChanged(prevState, full, f1)
          /\ "lastFetched" \in DOMAIN prevState.repos[full].files[f1.path]
          /\ ~NewOrChanged(prevState, full, f2)
          /\ "lastFetched" \notin DOMAIN prevState.repos[full].files[f2.path]

\* (C4) At the return of scrapeOrg, the file list holds exactly one record for
\* each new or changed tree entry whose content fetch succeeded, with the full
\* name, the path, the content the client served and the tree's fingerprint,
\* and no other record.
C4_Expected ==
    {[repo |-> full, path |-> file.path,
      content |-> RemoteContent(RepoNameOf(full), file.path), sha |-> file.sha] :
        <<full, file>> \in
            {x \in UNION {{<<f, e>> : e \in TreeEntries(f)} : f \in treeOk} :
                /\ NewOrChanged(prevState, x[1], x[2])
                /\ <<x[1], x[2].path>> \notin fetchFailed}}

C4_ResultsAreFetchedFiles ==
    pc = "returned" =>
        /\ Range(results) = C4_Expected
        /\ Len(results) = Cardinality(C4_Expected)

C4_Witness ==
    /\ pc = "returned"
    /\ Len(results) >= 1
    /\ fetchFailed # {}
    /\ totalSkipped > 0

\* ------------------------------------------- claims about failed requests

\* Reference run: what scrapeOrg emits, returns and counts for a list of
\* repositories whose trees are all listed, given the previous store and the
\* set of content fetches that fail.  acc = [files, events, fetched, skipped, total]
RefFile(acc, full, file, prev, failed) ==
    IF ~NewOrChanged(prev, full, file)
    THEN [acc EXCEPT
            !.skipped = @ + 1,
            !.events = Append(@, [phase |-> "files", repo |-> full, fetched |-> acc.fetched,
                                  skipped |-> acc.skipped + 1, total |-> acc.total])]
    ELSE LET ev == [phase |-> "files", repo |-> full, fetched |-> acc.fetched,
                    skipped |-> acc.skipped, total |-> acc.total,
                    message |-> "Fetching " \o full \o "/" \o file.path]
         IN  IF <<full, file.path>> \in failed
             THEN [acc EXCEPT !.events = Append(@, ev)]
             ELSE [acc EXCEPT
                     !.events = Append(@, ev),
                     !.fetched = @ + 1,
                     !.files = Append(@, [repo |-> full, path |-> file.path,
                                          content |-> RemoteContent(RepoNameOf(full), file.path),
                                          sha |-> file.sha])]

RECURSIVE RefFilesFrom(_, _, _, _, _, _)
RefFilesFrom(acc, full, tree, k, prev, failed) ==
    IF k > Len(tree) THEN acc
    ELSE RefFilesFrom(RefFile(acc, full, tree[k], prev, failed), full, tree, k + 1, prev, failed)

RefRepo(acc, r, prev, failed) ==
    LET tree == GetRepoTree(r.name)
        listed == [acc EXCEPT
                     !.events = Append(@, [phase |-> "tree", repo |-> r.full_name,
                                           fetched |-> acc.fetched, skipped |-> acc.skipped,
                                           total |-> acc.total]),
                     !.total = @ + Len(tree)]
    IN  RefFilesFrom(listed, r.full_name, tree, 1, prev, failed)

RECURSIVE RefReposFrom(_, _, _, _, _)
RefReposFrom(acc, list, k, prev, failed) ==
    IF k > Len(list) THEN acc
    ELSE RefReposFrom(RefRepo(acc, list[k], prev, failed), list, k + 1, prev, failed)

RefRun(list, prev, failed, first) ==
    LET acc == RefReposFrom([files |-> <<>>, events |-> <<first>>, fetched |-> 0,
                             skipped |-> 0, total |-> 0], list, 1, prev, failed)
    IN  [acc EXCEPT !.events = Append(@, [phase |-> "done", fetched |-> acc.fetched,
                                          skipped |-> acc.skipped, total |-> acc.total])]

\* The retained repositories whose tree listing did not fail
NotFailed == SelectSeq(repos, LAMBDA r : r.full_name \notin treeFailed)

\* (C8) A failed tree listing does not make scrapeOrg fail.  At the return, a
\* repository whose listing failed has no 'files' event, no record, no bucket
\* and no share in the total; and the records, the counters, the buckets and
\* the events other than the failed repositories' own 'tree' events are those
\* of a run over the list without the failed repositories.
C8_FailedListingIsolated ==
    /\ (treeFailed # {} /\ pc # "idle") => pc # "threw"
    /\ pc = "returned" =>
          LET ref == RefRun(NotFailed, prevState, fetchFailed, events[1])
          IN  /\ \A full \in treeFailed :
                    /\ full \notin DOMAIN newState.repos
                    /\ \A k \in 1..Len(results) : results[k].repo # full
                    /\ \A k \in 1..Len(events) :
                          events[k].phase = "files" => events[k].repo # full
              /\ results = ref.files
              /\ <<totalFetched, totalSkipped, totalFiles>> = <<ref.fetched, ref.skipped, ref.total>>
              /\ SelectSeq(events, LAMBDA e : ~(e.phase = "tree" /\ e.repo \in treeFailed))
                    = ref.events
              /\ DOMAIN newState.repos = {NotFailed[k].full_name : k \in 1..Len(NotFailed)}

C8_Witness ==
    /\ pc = "returned"
    /\ Len(repos) = 2
    /\ treeFailed = {repos[1].full_name}
    /\ Len(GetRepoTree(repos[1].name)) > 0
    /\ \E k \in 1..Len(results) : results[k].repo = repos[2].full_name

\* The 'files' events of a repository, in emission order
FilesEvents(full) == SelectSeq(events, LAMBDA e : e.phase = "files" /\ e.repo = full)

\* (C9) A failed content fetch does not make scrapeOrg fail and skips only that
\* file: the fetched count stays the number of fetches that resolved, and at the
\* return every retained repository has had its tree requested, every entry of
\* every listed tree has its 'files' event and its cache entry, and the only
\* entries without a record are the unchanged ones and those whose fetch failed.
C9_FailedFetchIsolated ==
    /\ totalFetched = Len(results)
    /\ Len(results) + Cardinality(fetchFailed) + (IF pc = "content" THEN 1 ELSE 0)
          = Len(requested)
    /\ (fetchFailed # {} /\ pc # "idle") => pc # "threw"
    /\ pc = "returned" =>
          /\ \A q \in fetchFailed : \A k \in 1..Len(results) :
                <<results[k].repo, results[k].path>> # q
          /\ \A k \in 1..Len(repos) : repos[k].full_name \in treeOk \cup treeFailed
          /\ \A full \in treeOk :
                /\ Len(FilesEvents(full)) = Len(GetRepoTree(RepoNameOf(full)))
                /\ \A file \in TreeEntries(full) :
                      /\ file.path \in DOMAIN newState.repos[full].files
                      /\ \/ \E k \in 1..Len(results) :
                               results[k].repo = full /\ results[k].path = file.path
                         \/ <<full, file.path>> \in fetchFailed
                         \/ ~NewOrChanged(prevState, full, file)

C9_Witness ==
    /\ pc = "returned"
    /\ Len(repos) = 2
    /\ Len(mdFiles) >= 1
    /\ LET first == repos[1].full_name
           tree == GetRepoTree(repos[1].name)
       IN  /\ Len(tree) = 2
           /\ <<first, tree[1].path>> \in fetchFailed
           /\ \E k \in 1..Len(results) :
                 results[k].repo = first /\ results[k].path = tree[2].path
    /\ \E k \in 1..Len(results) : results[k].repo = repos[2].full_name

\* (C10) When the repository listing is rejected scrapeOrg rejects: only the
\* 'repos' event has been emitted (no 'done' event), nothing has been fetched
\* or recorded, the call never returns a file list and a store, and the caller's
\* next step leaves the persisted state as it was.
C10_ListingFailureIsFatal ==
    /\ [](pc = "threw" =>
            /\ Len(events) = 1
            /\ events[1].phase = "repos"
            /\ results = <<>>
            /\ requested = <<>>
            /\ newState.repos = <<>>)
    /\ [][(pc = "listing" /\ pc' # "repoLoop") => pc' = "threw"]_vars
    /\ [][pc = "threw" =>
            /\ pc' = "idle"
            /\ stateFile' = stateFile
            /\ runs' = Append(runs, RunRecord("threw"))]_vars

C10_Witness ==
    /\ pc = "idle"
    /\ runs # <<>>
    /\ runs[Len(runs)].outcome = "threw"
    /\ stateFile.kind = "json"
    /\ stateFile.value.repos # <<>>

\* ------------------------------------------------ claims about two runs

\* The (repo, path, fingerprint, last-fetched) entries of a store
Entries(st) ==
    UNION {{<<full, p, st.repos[full].files[p].sha, st.repos[full].files[p].lastFetched>> :
               p \in DOMAIN st.repos[full].files} : full \in DOMAIN st.repos}

\* Runs k and k+1 both returned, the second fed the store the first returned
\* (the organisation itself never changes during a behaviour)
Rerun(k) ==
    /\ k + 1 <= Len(runs)
    /\ runs[k].outcome = "returned"
    /\ runs[k + 1].outcome = "returned"
    /\ runs[k + 1].prev = runs[k].state

\* Every tree listing had the same outcome in runs k and k+1
SameListings(k) ==
    /\ runs[k].treeOk = runs[k + 1].treeOk
    /\ runs[k].treeFailed = runs[k + 1].treeFailed

\* (C5, as stated) A second run fed the store of the first, the organisation
\* unchanged, fetches no file and returns the same set of entries.
C5_Original ==
    \A k \in 1..Len(runs) :
        Rerun(k) =>
            /\ runs[k + 1].files = <<>>
            /\ Entries(runs[k + 1].state) = Entries(runs[k].state)

\* (C5, amended) A second run fed the store of the first, the organisation
\* unchanged and every tree listing ending as it did in the first run, requests
\* no content, returns no file and returns the same set of entries.
C5_IdempotentRerun ==
    \A k \in 1..Len(runs) :
        (Rerun(k) /\ SameListings(k)) =>
            /\ runs[k + 1].files = <<>>
            /\ runs[k + 1].requested = <<>>
            /\ Entries(runs[k + 1].state) = Entries(runs[k].state)

C5_Witness ==
    /\ Rerun(1)
    /\ SameListings(1)
    /\ runs[1].files # <<>>
    /\ runs[1].fetchFailed # {}
    /\ runs[1].treeFailed # {}
    /\ Cardinality(Entries(runs[2].state)) >= 2

\* (C6, as stated) The store returned by the second run equals the store returned
\* by the first, as a whole record.
C6_Original ==
    \A k \in 1..Len(runs) : Rerun(k) => runs[k + 1].state = runs[k].state

\* (C6, amended) With every tree listing ending as in the first run, the second
\* run returns a store whose repos mapping equals the first run's; its
\* lastScrape is the time the second run began, not earlier than the first's.
C6_SameReposNewLastScrape ==
    \A k \in 1..Len(runs) :
        (Rerun(k) /\ SameListings(k)) =>
            /\ runs[k + 1].state.repos = runs[k].state.repos
            /\ DOMAIN runs[k + 1].state = {"repos", "lastScrape"}
            /\ \E t1 \in StartTime..MaxClock : \E t2 \in t1..MaxClock :
                  /\ runs[k].state.lastScrape = ToISOString(t1)
                  /\ runs[k + 1].state.lastScrape = ToISOString(t2)

C6_Witness ==
    /\ Rerun(1)
    /\ SameListings(1)
    /\ runs[1].state.repos # <<>>
    /\ runs[2].state.lastScrape # runs[1].state.lastScrape
    /\ \E full \in DOMAIN runs[2].state.repos : runs[2].state.repos[full].files # <<>>

\* (C7) A path whose content fetch failed in one run is requested again by the
\* next run (fed the store the first returned, the path's fingerprint unchanged
\* and its repository's tree listed again).
C7_RetryAfterFailedFetch ==
    \A k \in 1..Len(runs) :
        Rerun(k) =>
            \A q \in runs[k].fetchFailed :
                q[1] \in runs[k + 1].treeOk => q \in Range(runs[k + 1].requested)

\* (C11) A state file that is missing, is not JSON, or is JSON of another shape
\* than a store is treated as an empty store: scrapeOrg fails only when the
\* listing of the organisation failed, and at its return the records, the
\* events and the counters are those of a run from the empty store.
C11_MalformedIsFirstRun ==
    /\ pc = "threw" => Len(events) = 1
    /\ pc = "returned" =>
          LET ref == RefRun(NotFailed, EmptyState, fetchFailed, events[1])
          IN  /\ results = ref.files
              /\ totalFetched = ref.fetched
              /\ totalSkipped = 0

\* Position of the repository named n in the client's listing
ListedAt(n) == CHOOSE k \in 1..Len(remote.repos) : remote.repos[k] = n

\* (C12) With a repoFilter, once the listing has resolved the retained
\* repositories are exactly the listed ones whose short name the filter
\* matches, in the order of the listing; and no event, no tree or content
\* request, no record and no bucket of the new store names a repository the
\* filter does not match.
C12_FilterRetainsMatching ==
    "repoFilter" \in DOMAIN config =>
        /\ pc \in {"repoLoop", "tree", "fileLoop", "content", "returned"} =>
              /\ \A k \in 1..Len(repos) : repos[k] \in Range(ListOrgRepos)
              /\ {repos[k].name : k \in 1..Len(repos)}
                    = {n \in Range(remote.repos) : n \in config.repoFilter}
              /\ \A i, j \in 1..Len(repos) :
                    i < j => ListedAt(repos[i].name) < ListedAt(repos[j].name)
        /\ \A e \in Range(events) :
              "repo" \in DOMAIN e => RepoNameOf(e.repo) \in config.repoFilter
        /\ \A full \in treeOk \cup treeFailed : RepoNameOf(full) \in config.repoFilter
        /\ \A q \in Range(requested) : RepoNameOf(q[1]) \in config.repoFilter
        /\ \A f \in Range(results) : RepoNameOf(f.repo) \in config.repoFilter
        /\ \A full \in DOMAIN newState.repos : RepoNameOf(full) \in config.repoFilter

\* A run returned records of the matching repository, listed after one the
\* filter dropped and the previous store held
C12_Witness ==
    /\ pc = "returned"
    /\ "repoFilter" \in DOMAIN config
    /\ config.repoFilter = {"a"}
    /\ remote.repos = <<"b", "a">>
    /\ FullName("b") \in DOMAIN prevState.repos
    /\ results # <<>>
    /\ DOMAIN newState.repos = {FullName("a")}

\* ------------------------------------------------ claims about the store

\* Short names of the listed repositories the configuration retains
Kept ==
    {n \in Range(remote.repos) : "repoFilter" \in DOMAIN config => n \in config.repoFilter}

\* <<full name, path>> of every tree entry of every retained repository
AllTreePaths ==
    UNION {{<<FullName(n), remote.trees[n][k]>> : k \in 1..Len(remote.trees[n])} : n \in Kept}

\* (C13) A run from an empty previous store in which every request succeeded
\* returns one record for each (repository, path) of every retained
\* repository's tree and no other, with the tree's fingerprint; the new store
\* has one bucket for each retained repository and in it exactly the tree's
\* paths with their fingerprints; nothing was skipped.
C13_FirstRunComplete ==
    (pc = "returned" /\ DOMAIN prevState.repos = {} /\ treeFailed = {} /\ fetchFailed = {}) =>
        /\ {<<f.repo, f.path>> : f \in Range(results)} = AllTreePaths
        /\ Len(results) = Cardinality(AllTreePaths)
        /\ \A f \in Range(results) : f.sha = RemoteSha(RepoNameOf(f.repo), f.path)
        /\ DOMAIN newState.repos = {FullName(n) : n \in Kept}
        /\ \A n \in Kept :
              /\ DOMAIN newState.repos[FullName(n)].files = Range(remote.trees[n])
              /\ \A p \in Range(remote.trees[n]) :
                    newState.repos[FullName(n)].files[p].sha = RemoteSha(n, p)
        /\ totalSkipped = 0
        /\ totalFetched = Cardinality(AllTreePaths)

\* A first run over two repositories, one of them with two files, all fetched
C13_Witness ==
    /\ pc = "returned"
    /\ DOMAIN prevState.repos = {}
    /\ treeFailed = {}
    /\ fetchFailed = {}
    /\ Kept = {"a", "b"}
    /\ Len(results) = 3

\* (C14) At the return of scrapeOrg the repositories of the new store are
\* exactly the retained repositories whose tree listing succeeded in this run,
\* those with an empty tree included (with an empty bucket), whatever
\* repositories the previous store held.
C14_BucketsAreListedRepos ==
    pc = "returned" =>
        /\ DOMAIN newState.repos = {FullName(n) : n \in Kept} \ treeFailed
        /\ DOMAIN newState.repos = treeOk
        /\ \A n \in Kept :
              (FullName(n) \in treeOk /\ remote.trees[n] = <<>>) =>
                  newState.repos[FullName(n)] = [files |-> <<>>]

\* A run returned with an empty bucket for a repository with an empty tree,
\* and without one for a repository the previous store held and whose listing failed
C14_Witness ==
    /\ pc = "returned"
    /\ remote.repos = <<"a", "b">>
    /\ remote.trees["a"] = <<>>
    /\ FullName("a") \in treeOk
    /\ FullName("a") \notin DOMAIN prevState.repos
    /\ FullName("b") \in treeFailed
    /\ FullName("b") \in DOMAIN prevState.repos
    /\ DOMAIN newState.repos = {FullName("a")}

\* <<full name, path>> of the entries of the new store whose path the previous
\* store holds with another fingerprint and a timestamp
ChangedEntries ==
    {x \in UNION {{<<full, p>> : p \in DOMAIN newState.repos[full].files} :
                      full \in DOMAIN newState.repos} :
        /\ HasPrevEntry(prevState, x[1], x[2])
        /\ prevState.repos[x[1]].files[x[2]].sha # newState.repos[x[1]].files[x[2]].sha
        /\ "lastFetched" \in DOMAIN prevState.repos[x[1]].files[x[2]]}

\* (C15, as stated) An entry whose fingerprint differs from the one in the
\* previous store carries a timestamp strictly greater than the previous one.
C15_Original ==
    \A x \in ChangedEntries :
        newState.repos[x[1]].files[x[2]].lastFetched
            > prevState.repos[x[1]].files[x[2]].lastFetched

\* (C15, amended) An entry whose fingerprint differs from the one in the
\* previous store carries a time the clock was read at during this run, never
\* the previous timestamp carried over; it is strictly greater than the
\* previous timestamp whenever that one precedes the start of the run.
C15_ChangedEntryStampedNow ==
    \A x \in ChangedEntries :
        LET new == newState.repos[x[1]].files[x[2]].lastFetched
            old == prevState.repos[x[1]].files[x[2]].lastFetched
        IN  /\ new \in RunTimes
            /\ newState.lastScrape \in {ToISOString(t) : t \in StartTime..new}
            /\ old < StartTime => new > old

\* A run returned with a changed entry stamped after its previous timestamp
\* next to an unchanged one that kept it
C15_Witness ==
    /\ pc = "returned"
    /\ \E x \in ChangedEntries :
          /\ prevState.repos[x[1]].files[x[2]].lastFetched = PrevTime
          /\ newState.repos[x[1]].files[x[2]].lastFetched > StartTime
    /\ \E p \in DOMAIN newState.repos[FullName("a")].files :
          newState.repos[FullName("a")].files[p].lastFetched = PrevTime

\* ------------------------------------------- claims about progress events

\* Entries of the tree whose walk begins after event k: those of the listed
\* tree when event k is the 'tree' event of a repository whose listing succeeded
TreeGrowth(k) ==
    IF events[k].phase = "tree" /\ events[k].repo \in treeOk
    THEN Len(GetRepoTree(RepoNameOf(events[k].repo)))
    ELSE 0

\* (C16) Across the events of a run, in the order emitted, fetched + skipped
\* never decreases, nor does either of the two, and total never decreases: it grows by the number of entries of a repository's
\* tree between the 'tree' event of a listed repository and the next event,
\* and nowhere else.
C16_ProgressMonotone ==
    \A k \in 1..(Len(events) - 1) :
        /\ events[k + 1].fetched >= events[k].fetched
        /\ events[k + 1].skipped >= events[k].skipped
        /\ events[k + 1].fetched + events[k + 1].skipped
              >= events[k].fetched + events[k].skipped
        /\ events[k + 1].total >= events[k].total
        /\ events[k + 1].total = events[k].total + TreeGrowth(k)

\* A run returned after walking two non-empty trees, fetching and skipping
C16_Witness ==
    /\ pc = "returned"
    /\ Cardinality({k \in 1..Len(events) : TreeGrowth(k) > 0}) = 2
    /\ totalFetched > 0
    /\ totalSkipped > 0
    /\ events[Len(events)].total = 3

\* Position of a repository among the retained ones, of a path in its tree
RepoAt(full) == CHOOSE k \in 1..Len(repos) : repos[k].full_name = full

PathAt(full, path) ==
    CHOOSE k \in 1..Len(GetRepoTree(RepoNameOf(full))) :
        GetRepoTree(RepoNameOf(full))[k].path = path

\* x comes before y in repository-then-tree order (x, y: <<full name, path>>)
WalkedBefore(x, y) ==
    \/ RepoAt(x[1]) < RepoAt(y[1])
    \/ /\ x[1] = y[1]
       /\ PathAt(x[1], x[2]) < PathAt(y[1], y[2])

\* (C17) In the order emitted, the events of a repository (one 'tree' event,
\* then its 'files' events) all come before any event of a repository retained
\* after it; the k-th 'files' event of a repository is the one of the k-th
\* entry of its tree (it announces the fetch of that path when the entry is
\* new or changed, and has no message when it is skipped); and the content
\* requests and the returned records are in repository-then-tree order.
C17_RepositoryThenTreeOrder ==
    /\ \A i, j \in 1..Len(events) :
          (i < j /\ "repo" \in DOMAIN events[i] /\ "repo" \in DOMAIN events[j]) =>
              /\ RepoAt(events[i].repo) <= RepoAt(events[j].repo)
              /\ events[j].phase = "tree" => RepoAt(events[i].repo) < RepoAt(events[j].repo)
    /\ \A full \in treeOk :
          LET tree == GetRepoTree(RepoNameOf(full))
              evs == FilesEvents(full)
          IN  /\ Len(evs) <= Len(tree)
              /\ \A k \in 1..Len(evs) :
                    IF NewOrChanged(prevState, full, tree[k])
                    THEN /\ "message" \in DOMAIN evs[k]
                         /\ evs[k].message = "Fetching " \o full \o "/" \o tree[k].path
                    ELSE "message" \notin DOMAIN evs[k]
    /\ \A i, j \in 1..Len(requested) :
          i < j => WalkedBefore(requested[i], requested[j])
    /\ \A i, j \in 1..Len(results) :
          i < j => WalkedBefore(<<results[i].repo, results[i].path>>,
                                <<results[j].repo, results[j].path>>)
    /\ pc = "returned" =>
          \A full \in treeOk : Len(FilesEvents(full)) = Len(GetRepoTree(RepoNameOf(full)))

\* A run over b then a returned records of both, two of them of a, whose tree
\* lists docs/guide.md before README.md
C17_Witness ==
    /\ pc = "returned"
    /\ remote.repos = <<"b", "a">>
    /\ remote.trees["a"] = <<"docs/guide.md", "README.md">>
    /\ Len(repos) = 2
    /\ Len(results) = 3
    /\ results[1].repo = FullName("b")
    /\ results[2].path = "docs/guide.md"

C19_PrevStateUntouched ==
    /\ pc # "idle" => prevState = LoadState(stateFile)
    /\ \A k \in 1..Len(runs) :
          runs[k].outcome = "threw" => runs[k].prev = LoadState(stateFile)

\* A run returned a store that differs from the previous one in a bucket both
\* hold, the previous one still holding what was loaded
C19_Witness ==
    /\ pc = "returned"
    /\ \E full \in DOMAIN newState.repos \cap DOMAIN prevState.repos :
          /\ newState.repos[full] # prevState.repos[full]
          /\ DOMAIN newState.repos[full].files # {}
          /\ DOMAIN prevState.repos[full].files # {}
    /\ stateFile = Serialise(prevState)

\* Requests issued in this run and neither resolved nor rejected yet: content
\* requests, tree requests (one per 'tree' event), the listing request
OutstandingContent == Len(requested) - Len(results) - Cardinality(fetchFailed)

OutstandingTree ==
    Cardinality({k \in 1..Len(events) : events[k].phase = "tree"})
        - Cardinality(treeOk \cup treeFailed)

OutstandingList == IF pc = "listing" THEN 1 ELSE 0

Outstanding == OutstandingList + OutstandingTree + OutstandingContent

\* (C20) At most one client request is outstanding at any time: none is
\* outstanding at the heads of the loops, where the next request is issued,
\* nor when scrapeOrg has returned or failed, and exactly one while scrapeOrg
\* awaits the listing, a tree or a content.
C20_OneRequestAtATime ==
    /\ Outstanding \in {0, 1}
    /\ pc \in {"idle", "repoLoop", "fileLoop", "returned", "threw"} => Outstanding = 0
    /\ pc = "listing" => Outstanding = 1
    /\ pc = "tree" => OutstandingTree = 1 /\ Outstanding = 1
    /\ pc = "content" => OutstandingContent = 1 /\ Outstanding = 1

\* The second content request of a repository is outstanding after the first
\* one failed, in a run that had listed another repository before
C20_Witness ==
    /\ pc = "content"
    /\ Len(requested) >= 2
    /\ fetchFailed # {}
    /\ Cardinality(treeOk \cup treeFailed) = 2

\* ----------------------------------------------- claims about the client

\* (C21) A request that meets rate-limit responses, primary or secondary, is
\* retried a small fixed number of times at most: its retry count never
\* exceeds the limit, and the rate-limit response after the last allowed
\* retry makes the call fail.
C21_BoundedRetry ==
    request.status # "none" =>
        /\ request.retryCount <= RetryLimit
        /\ Len(request.limits) > RetryLimit => request.status = "failed"

\* Names of the repositories on the pages served
OnSomePage ==
    UNION {{served.pages[i][k].name : k \in 1..Len(served.pages[i])} :
              i \in 1..Len(served.pages)}

\* (C22) The list listOrgRepos resolves with is complete and deduplicated:
\* every repository that is on some page is in it, exactly once, and nothing
\* else is.
C22_CompleteAndDeduplicated ==
    clientResult.kind = "resolved" =>
        LET list == clientResult.value
        IN  /\ {list[k].name : k \in 1..Len(list)} = OnSomePage
            /\ \A i, j \in 1..Len(list) : list[i].name = list[j].name => i = j

\* The paths served that end in the Markdown extension
MarkdownPaths == {"README.md", "docs/guide.md", ".md", "old.md", "vendor.md"}

\* Positions of the served tree that hold a Markdown blob
MarkdownBlobsAt ==
    {k \in 1..Len(served.data.tree) :
        /\ served.data.tree[k].type = "blob"
        /\ "path" \in DOMAIN served.data.tree[k]
        /\ served.data.tree[k].path \in MarkdownPaths}

\* (C23) getRepoTree resolves with exactly the entries of the served tree
\* that are blobs and whose path ends in .md, each with its path, SHA and
\* type, in the order of the tree; a tree marked truncated is filtered and
\* returned like any other.
C23_MarkdownBlobsInTreeOrder ==
    clientResult.kind = "resolved" =>
        LET out == clientResult.value
            tree == served.data.tree
        IN  /\ Len(out) = Cardinality(MarkdownBlobsAt)
            /\ \A i \in 1..Len(out) :
                  \E k \in MarkdownBlobsAt :
                      /\ out[i] = [path |-> tree[k].path, sha |-> tree[k].sha,
                                   type |-> "blob"]
                      /\ Cardinality({m \in MarkdownBlobsAt : m < k}) = i - 1

\* A truncated tree of three entries was filtered down to its two Markdown
\* blobs, a directory named like a Markdown file between them left out
C23_Witness ==
    /\ clientResult.kind = "resolved"
    /\ served.data.truncated
    /\ Len(served.data.tree) = 3
    /\ served.data.tree[2].type = "tree"
    /\ served.data.tree[2].path = "old.md"
    /\ Len(clientResult.value) = 2
    /\ clientResult.value[1].path = "docs/guide.md"

\* ------------------------------------------ claims about the run's end

\* Positions of the 'done' events
DoneAt == {k \in 1..Len(events) : events[k].phase = "done"}

\* (C24) A scrapeOrg call whose requests are all answered comes to its end:
\* it returns or, when the listing of the organisation failed and only
\* then, fails.  A call that returns has emitted 'done' exactly once, as
\* its last event, in the step it returns with; no other call emits 'done'.
C24_TerminatesWithDone ==
    /\ (pc = "listing") ~> (pc \in {"returned", "threw"})
    /\ [](pc = "returned" => DoneAt = {Len(events)})
    /\ [](pc # "returned" => DoneAt = {})
    /\ [](pc = "threw" => Len(events) = 1)

\* A run returned after a failed tree listing and a failed content fetch
C24_Witness ==
    /\ pc = "returned"
    /\ treeFailed # {}
    /\ fetchFailed # {}
    /\ DoneAt = {Len(events)}
    /\ Len(events) >= 5

\* Positions of the events of a phase
PhaseAt(phase) == {k \in 1..Len(events) : events[k].phase = phase}

\* Repositories the loop has taken up so far
TakenUp ==
    IF pc \in {"tree", "fileLoop", "content"} THEN ri
    ELSE IF pc \in {"repoLoop", "returned"} THEN ri - 1
    ELSE 0

\* (C25) A run emits one event per emission point.  The 'repos' event is the
\* first and the only one while the listing is requested; there is one 'tree'
\* event per retained repository taken up, emitted before its tree is
\* requested and also when that listing then fails; one 'files' event per
\* entry of a listed tree, emitted for a new or changed entry before its
\* content is requested; and one 'done' event at the return.  At the return
\* the events are 2 + the retained repositories + the entries of the listed
\* trees, and every event is of one of these four phases.
C25_OneEventPerEmissionPoint ==
    pc # "idle" =>
        /\ PhaseAt("repos") = {1}
        /\ pc = "listing" => Len(events) = 1
        /\ \A k \in 1..Len(events) : events[k].phase \in {"repos", "tree", "files", "done"}
        /\ pc # "threw" =>
              /\ Cardinality(PhaseAt("tree")) = TakenUp
              /\ \A r \in 1..TakenUp :
                    Cardinality({k \in PhaseAt("tree") : events[k].repo = repos[r].full_name}) = 1
        /\ pc = "tree" =>
              /\ events[Len(events)].phase = "tree"
              /\ events[Len(events)].repo = repos[ri].full_name
        /\ \A full \in treeFailed : Len(FilesEvents(full)) = 0
        /\ pc = "content" =>
              /\ events[Len(events)].phase = "files"
              /\ events[Len(events)].repo = repos[ri].full_name
              /\ events[Len(events)].message
                    = "Fetching " \o repos[ri].full_name \o "/" \o mdFiles[fi].path
              /\ Len(FilesEvents(repos[ri].full_name)) = fi
              /\ requested[Len(requested)] = <<repos[ri].full_name, mdFiles[fi].path>>
        /\ pc = "returned" =>
              /\ \A full \in treeOk :
                    Len(FilesEvents(full)) = Len(GetRepoTree(RepoNameOf(full)))
              /\ Cardinality(PhaseAt("done")) = 1
              /\ Len(events)
                    = 2 + Len(repos)
                        + Cardinality(UNION {{<<full, k>> :
                              k \in 1..Len(GetRepoTree(RepoNameOf(full)))} : full \in treeOk})

\* A run over two repositories returned with six events: the listing of one
\* failed, the other has two entries, one skipped and one whose fetch failed
C25_Witness ==
    /\ pc = "returned"
    /\ Len(repos) = 2
    /\ treeFailed = {FullName("b")}
    /\ Len(events) = 6
    /\ totalSkipped = 1
    /\ fetchFailed # {}

\* <<full name, path>> of the entries of the listed trees
ListedEntries ==
    UNION {{<<full, file.path>> : file \in TreeEntries(full)} : full \in treeOk}

\* Those the previous store holds with the same fingerprint
UnchangedEntries ==
    UNION {{<<full, file.path>> : file \in {e \in TreeEntries(full) :
                                              ~NewOrChanged(prevState, full, e)}} :
              full \in treeOk}

\* (C26) In every event of a run fetched + skipped <= total, so the
\* percentage ScrapeStatus shows lies in 0..100.  In the 'done' event fetched
\* is the number of returned records, skipped the number of unchanged
\* entries, total the number of entries of the listed trees, and fetched +
\* skipped + the failed content fetches = total.
C26_CountersWithinTotal ==
    /\ \A k \in 1..Len(events) :
          /\ events[k].fetched + events[k].skipped <= events[k].total
          /\ events[k].fetched >= 0
          /\ events[k].skipped >= 0
          /\ Pct(events[k]) \in 0..100
    /\ pc = "returned" =>
          LET done == events[Len(events)]
          IN  /\ done.phase = "done"
              /\ done.fetched = Len(results)
              /\ done.skipped = Cardinality(UnchangedEntries)
              /\ done.total = Cardinality(ListedEntries)
              /\ done.fetched + done.skipped + Cardinality(fetchFailed) = done.total
              /\ (fetchFailed = {} /\ done.total > 0) => Pct(done) = 100

\* A run returned with a record, a skipped entry and a failed fetch: 67 %
C26_Witness ==
    /\ pc = "returned"
    /\ Len(results) = 1
    /\ totalSkipped = 1
    /\ Cardinality(fetchFailed) = 1
    /\ Pct(events[Len(events)]) = 67

\* ------------------------------------------- the CLI's docs directory

\* The record's file is in the directory with the record's content
OnDisk(dir, file) ==
    /\ DestPath(file) \in DOMAIN dir
    /\ dir[DestPath(file)] = file.content

\* (C27) The CLI replaces the state file only in the step that follows
\* scrapeOrg's return and only with every returned file on disk; a step that
\* leaves a returned file unwritten leaves the state file as it was; and the
\* files of every run whose state was persisted are on disk ever after.
C27_StateAfterFiles ==
    /\ [][(config.caller = "cli" /\ stateFile' # stateFile) =>
              /\ pc = "returned"
              /\ stateFile' = Serialise(newState)
              /\ \A i \in 1..Len(results) : OnDisk(docs', results[i])]_vars
    /\ [][(config.caller = "cli" /\ pc = "returned" /\ pc' = "idle"
              /\ \E i \in 1..Len(results) : ~OnDisk(docs', results[i])) =>
              stateFile' = stateFile]_vars
    /\ [](config.caller = "cli" =>
              \A k \in 1..Len(runs) :
                  runs[k].outcome = "returned" =>
                      \A i \in 1..Len(runs[k].files) : OnDisk(docs, runs[k].files[i]))

\* The write of the second of two returned files failed: the first is on disk,
\* the second is not, and the state file is what the run loaded
C27_Witness ==
    /\ config.caller = "cli"
    /\ Len(runs) = 1
    /\ runs[1].outcome = "writeFailed"
    /\ Len(runs[1].files) >= 2
    /\ OnDisk(docs, runs[1].files[1])
    /\ ~OnDisk(docs, runs[1].files[2])
    /\ stateFile \in {Absent, Serialise(runs[1].prev)}
    /\ stateFile # Serialise(runs[1].state)

\* The destinations of the returned records
Destinations == {DestPath(results[i]) : i \in 1..Len(results)}

\* <<full name, path>> of the entries of the previous store
PrevEntries ==
    UNION {{<<full, path>> : path \in DOMAIN prevState.repos[full].files} :
              full \in DOMAIN prevState.repos}

\* (C28) Only the CLI's step after scrapeOrg's return changes the docs
\* directory, and it changes it at the destinations of the returned records
\* only, each <docs dir>/<owner/repo>/<path> of one record and holding that
\* record's content: no file is deleted, a file that changes or appears is a
\* record's, two records never share a destination, and the file of every
\* previous entry without a record (skipped as unchanged, or dropped from the
\* store) is left as it was.  When the state is persisted every record has
\* been written.
C28_OneFilePerRecord ==
    [][/\ docs' # docs => (config.caller = "cli" /\ pc = "returned")
       /\ \A d \in DOMAIN docs :
              /\ d \in DOMAIN docs'
              /\ docs'[d] # docs[d] => d \in Destinations
       /\ \A d \in DOMAIN docs' \ DOMAIN docs : d \in Destinations
       /\ \A i \in 1..Len(results) :
              LET d == DestPath(results[i])
              IN  /\ d = DocsDir \o "/" \o results[i].repo \o "/" \o results[i].path
                  /\ \A j \in 1..Len(results) : DestPath(results[j]) = d => j = i
                  /\ (d \in DOMAIN docs' /\ (d \notin DOMAIN docs \/ docs'[d] # docs[d])) =>
                         docs'[d] = results[i].content
       /\ pc = "returned" =>
              \A e \in PrevEntries :
                  LET d == DestPath([repo |-> e[1], path |-> e[2]])
                  IN  (d \in DOMAIN docs
                         /\ \A i \in 1..Len(results) :
                                <<results[i].repo, results[i].path>> # e) =>
                      (d \in DOMAIN docs' /\ docs'[d] = docs[d])
       /\ (config.caller = "cli" /\ stateFile' # stateFile) =>
              docs' = [d \in DOMAIN docs \cup Destinations |->
                          IF d \in Destinations
                          THEN (CHOOSE f \in Range(results) : DestPath(f) = d).content
                          ELSE docs[d]]]_vars

\* A persisted run from the seeded store that fetched org/a's changed
\* README.md, dropped org/a's docs/guide.md from the store and skipped org/b's
\* README.md: three files are on disk, the fetched one with its new content,
\* the dropped and the skipped one as they were
C28_Witness ==
    /\ config.caller = "cli"
    /\ Len(runs) = 1
    /\ runs[1].outcome = "returned"
    /\ runs[1].prev = SeedState
    /\ Len(runs[1].files) = 1
    /\ DOMAIN docs = {"docs/org/a/README.md", "docs/org/a/docs/guide.md",
                      "docs/org/b/README.md"}
    /\ docs["docs/org/a/README.md"] = runs[1].files[1].content
    /\ docs["docs/org/a/README.md"] # DocsOf(Serialise(SeedState))["docs/org/a/README.md"]
    /\ docs["docs/org/a/docs/guide.md"] = DocsOf(Serialise(SeedState))["docs/org/a/docs/guide.md"]
    /\ docs["docs/org/b/README.md"] = DocsOf(Serialise(SeedState))["docs/org/b/README.md"]
    /\ DOMAIN runs[1].state.repos = {"org/a", "org/b"}
    /\ DOMAIN runs[1].state.repos["org/a"].files = {"README.md"}
    /\ DOMAIN runs[1].state.repos["org/b"].files = {"README.md"}

\* ------------------------------------------------------- the browser form

\* (C29) In the browser every onStart is followed by exactly one onDone, with
\* the returned files when the scrape succeeded and with an empty list when it
\* failed, so that the running flag is false whenever no submission is in
\* progress; the localStorage entry is replaced only by a submission that
\* ends in onDone(files) of a returned scrape; and a scrape starts only while
\* the running flag is false.
C29_StartIsFollowedByDone ==
    /\ [](config.caller = "ui" =>
             /\ pc = "idle" => ~running
             /\ pc # "idle" => (running /\ uiLog = <<OnStart>>)
             /\ (pc = "idle" /\ uiLog # <<>>) =>
                    /\ Len(uiLog) = 2
                    /\ uiLog[1] = OnStart
                    /\ uiLog[2].call = "onDone")
    /\ [][config.caller = "ui" =>
             /\ (pc = "returned" /\ pc' = "idle" /\ stateFile' # stateFile) =>
                    uiLog' = <<OnStart, OnDone(results)>>
             /\ (pc = "threw" /\ pc' = "idle") => uiLog' = <<OnStart, OnDone(<<>>)>>
             /\ stateFile' # stateFile =>
                    (pc = "returned" /\ stateFile' = Serialise(newState))
             /\ (pc = "idle" /\ pc' # "idle") => ~running]_vars

====
